---- MODULE Spec2Model ----
(***************************************************************************)
(* Model of src/app.py: the start-up script that assembles the Pathway     *)
(* pipeline (reader -> documents -> chunks -> docs_for_store ->            *)
(* DocumentStore -> DocumentStoreServer) and then runs the engine, plus    *)
(* the per-record dataflow the assembled pipeline performs under pw.run(). *)
(***************************************************************************)
EXTENDS Integers, Sequences, FiniteSets, TLC

\* ------------------------------------------------------------------ bounds
MaxLen == 2
MaxRecords == 2
OtherDim == 768

\* the default dimension of line 128
DefaultDim == 384

\* ------------------------------------------------------------ Python values
\* A text is a sequence of tokens.  A Python value is [k, v]: k its type,
\* v the sequence of its items (each a text); a str or an int has one item.
Tokens == {"a"}
\* the headline of the i-th record of the source: a text of its own
HeadlineOf(i) == [j \in 1..i |-> "h"]

RECURSIVE TextsUpTo(_)
TextsUpTo(n) ==
    IF n = 0 THEN {<<>>}
    ELSE LET S == TextsUpTo(n - 1)
         IN  S \cup {Append(s, t) : s \in {x \in S : Len(x) = n - 1}, t \in Tokens}

Texts == TextsUpTo(MaxLen)

PyStr(s) == [k |-> "str", v |-> <<s>>]
PyTuple(items) == [k |-> "tuple", v |-> items]
PyList(items) == [k |-> "list", v |-> items]
PyInt(d) == [k |-> "int", v |-> <<d>>]
IndexError == [k |-> "exc", v |-> <<>>]

IsStr(x) == x.k = "str"
IsTuple(x) == x.k = "tuple"
TextOf(x) == x.v[1]

\* repr of the items of a tuple or list: 'x', 'y'
RECURSIVE ReprItems(_)
ReprItems(items) ==
    IF Len(items) = 0 THEN <<>>
    ELSE <<"'">> \o Head(items) \o <<"'">>
         \o (IF Len(items) > 1 THEN <<",">> ELSE <<>>)
         \o ReprItems(Tail(items))

\* Python's str(x), as a text
StrText(x) ==
    CASE x.k = "str" -> x.v[1]
      [] x.k = "int" -> x.v[1]
      [] x.k = "tuple" ->
            <<"(">> \o ReprItems(x.v) \o (IF Len(x.v) = 1 THEN <<",">> ELSE <<>>) \o <<")">>
      [] x.k = "list" -> <<"[">> \o ReprItems(x.v) \o <<"]">>
      [] OTHER -> <<>>

\* x[0] of a tuple: IndexError on the empty tuple
First(x) == IF Len(x.v) = 0 THEN IndexError ELSE PyStr(x.v[1])

\* line 74: lambda body: body[0] if isinstance(body, tuple) else body
UnwrapBody(body) == IF IsTuple(body) THEN First(body) ELSE body

\* line 105: lambda chunk: chunk[0] if isinstance(chunk, tuple) else chunk
UnwrapChunk(chunk) == IF IsTuple(chunk) THEN First(chunk) ELSE chunk

\* line 147/157: lambda text: text[0] if isinstance(text, tuple) else str(text)
DataOf(text) == IF IsTuple(text) THEN First(text) ELSE PyStr(StrText(text))

\* line 149: lambda headline: {"headline": str(headline)}
MetadataOf(headline) == << <<"headline", StrText(headline)>> >>

\* the metadata of a row of the data-only table of lines 156-158
NoMetadata == <<>>

\* ------------------------------------------------------------- the splitter
\* splitter(text), line 98: a list of (chunk text, metadata) tuples covering
\* the text in order with non-empty pieces; the empty text has no piece.
RECURSIVE Cuts(_)
Cuts(s) ==
    IF Len(s) = 0 THEN {<<>>}
    ELSE UNION {{<<SubSeq(s, 1, n)>> \o rest : rest \in Cuts(SubSeq(s, n + 1, Len(s)))}
                : n \in 1..Len(s)}

SplitOutputs(text) ==
    {[i \in 1..Len(c) |-> PyTuple(<<c[i], <<"{}">> >>)] : c \in Cuts(text)}

\* ------------------------------------------------------------------- state
VARIABLES
    UnstructuredParser,            \* "new" | "deprecated" | "none"   (lines 8-16)
    TokenCountSplitter,            \* TRUE iff the import of line 19 succeeded
    SentenceTransformerEmbedder,   \* TRUE iff the import of line 25 succeeded
    modelDim,                      \* the length of the vectors the model emits
    pc,                            \* position in the script
    abortCause,                    \* why the script raised, "" if it did not
    news_stream,                   \* TRUE once the reader is set up (line 64)
    chunks,                        \* "unset" | "documents" | "split"
    emb_dim,                       \* 0 until resolved (lines 123-128)
    dimDefaulted,                  \* TRUE iff emb_dim came from the except branch
    knn_dim,                       \* dimensions of knn_factory, 0 until built
    docs_for_store,                \* "unset" | "meta" | "dataonly"
    document_store,                \* TRUE once the DocumentStore is built
    server,                        \* "none" | "serving" | "failed"
    engine,                        \* "off" | "running" | "terminated"
    feed,                          \* the complete records of DATA_FILE, in order
    partial,                       \* TRUE iff a record is partially written
    offset,                        \* number of records the reader has emitted
    passes,                        \* per emitted record: what its pass did
    store,                         \* the entries visible to queries, in id order
    nin, nval, nstage              \* the field value under normalisation

vars == <<UnstructuredParser, TokenCountSplitter, SentenceTransformerEmbedder,
          modelDim, pc, abortCause, news_stream, chunks, emb_dim, dimDefaulted,
          knn_dim, docs_for_store, document_store, server, engine, feed,
          partial, offset, passes, store, nin, nval, nstage>>

env == <<UnstructuredParser, TokenCountSplitter, SentenceTransformerEmbedder, modelDim>>
built == <<news_stream, chunks, emb_dim, dimDefaulted, knn_dim, docs_for_store,
           document_store, server>>
flow == <<feed, partial, offset, passes, store>>
norm == <<nin, nval, nstage>>

\* the records the source can hold: schema NewsArticleSchema (lines 59-61);
\* a body arrives as a str or, in some builds, wrapped in a 1-tuple (line 72)
Bodies == {PyStr(s) : s \in Texts} \cup {PyTuple(<<s>>) : s \in Texts}
RecordsAt(i) == [headline : {PyStr(HeadlineOf(i))}, body : Bodies]

Init ==
    /\ UnstructuredParser \in {"new", "deprecated", "none"}
    /\ TokenCountSplitter \in BOOLEAN
    /\ SentenceTransformerEmbedder \in BOOLEAN
    /\ modelDim \in {DefaultDim, OtherDim}
    /\ pc = "deps"
    /\ abortCause = ""
    /\ news_stream = FALSE
    /\ chunks = "unset"
    /\ emb_dim = 0
    /\ dimDefaulted = FALSE
    /\ knn_dim = 0
    /\ docs_for_store = "unset"
    /\ document_store = FALSE
    /\ server = "none"
    /\ engine = "off"
    /\ feed = <<>>
    /\ partial = FALSE
    /\ offset = 0
    /\ passes = <<>>
    /\ store = <<>>
    /\ nin = PyStr(<<>>)
    /\ nval = PyStr(<<>>)
    /\ nstage = "off"

\* ----------------------------------------------------------------- start-up
\* CheckDeps without the raise of lines 50-53
CheckDepsNoRaise ==
    /\ pc = "deps"
    /\ pc' = "read"
    /\ UNCHANGED <<env, abortCause, built, engine, flow, norm>>

\* lines 49-53
CheckDeps ==
    /\ pc = "deps"
    /\ IF ~SentenceTransformerEmbedder
       THEN pc' = "aborted" /\ abortCause' = "embedder_unavailable"
       ELSE pc' = "read" /\ UNCHANGED abortCause
    /\ UNCHANGED <<env, built, engine, flow, norm>>

\* lines 63-69
ReadSource ==
    /\ pc = "read"
    /\ news_stream' = TRUE
    /\ pc' = "documents"
    /\ UNCHANGED <<env, abortCause, chunks, emb_dim, dimDefaulted, knn_dim,
                   docs_for_store, document_store, server, engine, flow, norm>>

\* lines 73-86: documents, and chunks = documents
BuildDocuments ==
    /\ pc = "documents"
    /\ chunks' = "documents"
    /\ pc' = "splitter"
    /\ UNCHANGED <<env, abortCause, news_stream, emb_dim, dimDefaulted, knn_dim,
                   docs_for_store, document_store, server, engine, flow, norm>>

\* lines 91-113: ok is whether lines 94-107 ran without an exception
BuildSplitter ==
    /\ pc = "splitter"
    /\ IF TokenCountSplitter
       THEN \E ok \in BOOLEAN : chunks' = IF ok THEN "split" ELSE "documents"
       ELSE UNCHANGED chunks
    /\ pc' = "embedder"
    /\ UNCHANGED <<env, abortCause, news_stream, emb_dim, dimDefaulted, knn_dim,
                   docs_for_store, document_store, server, engine, flow, norm>>

\* lines 118-128: ok is whether get_embedding_dimension() returned
DetectDim ==
    /\ pc = "embedder"
    /\ \E ok \in BOOLEAN :
          /\ emb_dim' = IF ok THEN modelDim ELSE DefaultDim
          /\ dimDefaulted' = ~ok
    /\ pc' = "knn"
    /\ UNCHANGED <<env, abortCause, news_stream, chunks, knn_dim,
                   docs_for_store, document_store, server, engine, flow, norm>>

\* BuildKnnFactory with the default dimension in place of emb_dim
BuildKnnFactoryFixedDim ==
    /\ pc = "knn"
    /\ knn_dim' = DefaultDim
    /\ pc' = "docs"
    /\ UNCHANGED <<env, abortCause, news_stream, chunks, emb_dim, dimDefaulted,
                   docs_for_store, document_store, server, engine, flow, norm>>

\* lines 131-136
BuildKnnFactory ==
    /\ pc = "knn"
    /\ knn_dim' = emb_dim
    /\ pc' = "docs"
    /\ UNCHANGED <<env, abortCause, news_stream, chunks, emb_dim, dimDefaulted,
                   docs_for_store, document_store, server, engine, flow, norm>>

\* lines 145-158: ok is whether the select of lines 146-152 ran without an exception
BuildDocsForStore ==
    /\ pc = "docs"
    /\ \E ok \in BOOLEAN : docs_for_store' = IF ok THEN "meta" ELSE "dataonly"
    /\ pc' = "store"
    /\ UNCHANGED <<env, abortCause, news_stream, chunks, emb_dim, dimDefaulted,
                   knn_dim, document_store, server, engine, flow, norm>>

\* lines 166-169
BuildDocumentStore ==
    /\ pc = "store"
    /\ document_store' = TRUE
    /\ pc' = "server"
    /\ UNCHANGED <<env, abortCause, news_stream, chunks, emb_dim, dimDefaulted,
                   knn_dim, docs_for_store, server, engine, flow, norm>>

\* lines 176-185: run is the outcome of server.run(threaded=True), serve that of
\* server.serve(threaded=True); an exception of run other than TypeError is not caught
StartServer ==
    /\ pc = "server"
    /\ \E run \in {"ok", "TypeError", "error"}, serve \in {"ok", "error"} :
          CASE run = "ok" ->
                  server' = "serving" /\ pc' = "engine" /\ UNCHANGED abortCause
            [] run = "error" ->
                  server' = "failed" /\ pc' = "aborted" /\ abortCause' = "server"
            [] run = "TypeError" ->
                  /\ server' = IF serve = "ok" THEN "serving" ELSE "failed"
                  /\ pc' = "engine"
                  /\ UNCHANGED abortCause
    /\ UNCHANGED <<env, news_stream, chunks, emb_dim, dimDefaulted, knn_dim,
                   docs_for_store, document_store, engine, flow, norm>>

\* lines 190-191
StartEngine ==
    /\ pc = "engine"
    /\ engine' = "running"
    /\ pc' = "running"
    /\ UNCHANGED <<env, abortCause, built, flow, norm>>

\* ------------------------------------------------------------- the source
\* a writer starts appending a record to DATA_FILE: the line is not complete yet
BeginWrite ==
    /\ engine = "running"
    /\ ~partial
    /\ Len(feed) < MaxRecords
    /\ partial' = TRUE
    /\ UNCHANGED <<env, pc, abortCause, built, engine, feed, offset, passes, store, norm>>

\* the writer completes the line
FinishWrite ==
    /\ partial
    /\ \E r \in RecordsAt(Len(feed) + 1) : feed' = Append(feed, r)
    /\ partial' = FALSE
    /\ UNCHANGED <<env, pc, abortCause, built, engine, offset, passes, store, norm>>

\* ------------------------------------------------------------ the dataflow
\* lines 73-76: the row of documents for a record
DocumentRow(r) == [text |-> UnwrapBody(r.body), headline |-> r.headline]

\* lines 104-107: flatten gives one row per element of the chunk list, and the
\* select unwraps each; the headline column is carried along
FlattenRows(out, headline) ==
    [i \in 1..Len(out) |-> [text |-> UnwrapChunk(out[i]), headline |-> headline]]

\* lines 146-158: the row of docs_for_store for a row of chunks
StoreRow(row) ==
    [data |-> DataOf(row.text),
     meta |-> IF docs_for_store = "meta" THEN MetadataOf(row.headline) ELSE NoMetadata]

\* the Vector Index takes a vector only when it has the dimension the index
\* was built with (lines 131-136 pass dimensions=emb_dim)
IndexAccepts(vlen) == vlen = knn_dim

\* lines 166-169: the entries the DocumentStore adds for the rows of one
\* record, each embedded by the embedder of line 133
NewEntries(rows, rec, base) ==
    [i \in 1..Len(rows) |->
        [id |-> base + i, rec |-> rec, data |-> StoreRow(rows[i]).data,
         meta |-> StoreRow(rows[i]).meta, vlen |-> modelDim]]

\* line 191, pw.run(): one pass of the engine over the next complete record.
\* fail is whether splitter(text) of line 98 raises on this record: the
\* exception is outside the try of lines 92-111, and pw.run() ends on it.
Ingest ==
    /\ engine = "running"
    /\ offset < Len(feed)
    /\ LET r == feed[offset + 1]
           doc == DocumentRow(r)
       IN  \E fail \in BOOLEAN, out \in SplitOutputs(TextOf(doc.text)) :
             IF chunks = "split" /\ fail
             THEN /\ engine' = "terminated"
                  /\ passes' = Append(passes, [n |-> 0, texts |-> <<>>, outcome |-> "split_raised"])
                  /\ UNCHANGED store
             ELSE LET rows == IF chunks = "split"
                              THEN FlattenRows(out, doc.headline)
                              ELSE <<doc>>
                      new == NewEntries(rows, offset + 1, Len(store))
                  IN  /\ passes' = Append(passes, [n |-> Len(rows),
                                                 texts |-> [i \in 1..Len(rows) |-> StoreRow(rows[i]).data],
                                                 outcome |-> "ok"])
                      /\ store' = IF IndexAccepts(modelDim) THEN store \o new ELSE store
                      /\ UNCHANGED engine
    /\ offset' = offset + 1
    /\ UNCHANGED <<env, pc, abortCause, built, feed, partial, norm>>

Next ==
    \/ CheckDeps
    \/ ReadSource
    \/ BuildDocuments
    \/ BuildSplitter
    \/ DetectDim
    \/ BuildKnnFactory
    \/ BuildDocsForStore
    \/ BuildDocumentStore
    \/ StartServer
    \/ StartEngine
    \/ BeginWrite
    \/ FinishWrite
    \/ Ingest

Spec == Init /\ [][Next]_vars

\* ------------------------------------------------- the field normalisation
\* The lambdas of lines 74, 105, 147 and 149 applied to one raw field value,
\* in the order the pipeline applies them.
ItemsUpTo2 == {<<>>} \cup {<<s>> : s \in Texts} \cup {<<s, t>> : s \in Texts, t \in Texts}

RawValues ==
    {PyStr(s) : s \in Texts} \cup {PyTuple(x) : x \in ItemsUpTo2}
    \cup {PyList(x) : x \in ItemsUpTo2} \cup {PyInt(<<"7">>)}

InitNormalizer ==
    /\ UnstructuredParser = "none"
    /\ TokenCountSplitter \in BOOLEAN
    /\ SentenceTransformerEmbedder = TRUE
    /\ modelDim = DefaultDim
    /\ pc = "normalizer"
    /\ abortCause = ""
    /\ news_stream = FALSE
    /\ chunks = "unset"
    /\ emb_dim = 0
    /\ dimDefaulted = FALSE
    /\ knn_dim = 0
    /\ docs_for_store = "unset"
    /\ document_store = FALSE
    /\ server = "none"
    /\ engine = "off"
    /\ feed = <<>>
    /\ partial = FALSE
    /\ offset = 0
    /\ passes = <<>>
    /\ store = <<>>
    /\ nin \in RawValues
    /\ nval = nin
    /\ nstage \in {"body", "headline"}

rest == <<env, pc, abortCause, built, engine, flow>>

\* line 74 on a raw body
NormBody ==
    /\ nstage = "body"
    /\ nval' = UnwrapBody(nval)
    /\ nstage' = IF nval' = IndexError THEN "raised" ELSE "text"
    /\ UNCHANGED <<rest, nin>>

\* lines 98-107 on a text: the splitter, flatten, and the unwrap of line 105
NormChunk ==
    /\ nstage = "text"
    /\ TokenCountSplitter
    /\ IsStr(nval)
    /\ \E out \in SplitOutputs(TextOf(nval)) :
          IF Len(out) = 0
          THEN nstage' = "dropped" /\ UNCHANGED nval
          ELSE \E i \in 1..Len(out) :
                  /\ nval' = UnwrapChunk(out[i])
                  /\ nstage' = "chunk"
    /\ UNCHANGED <<rest, nin>>

\* line 147 on the text of a row of chunks
NormData ==
    /\ nstage \in {"text", "chunk"}
    /\ nval' = DataOf(nval)
    /\ nstage' = IF nval' = IndexError THEN "raised"
                 ELSE IF nstage = "text" THEN "data" ELSE "chunkdata"
    /\ UNCHANGED <<rest, nin>>

\* lines 75, 99, 106 pass the headline on; line 149 coerces it
NormHeadline ==
    /\ nstage = "headline"
    /\ nval' = PyStr(StrText(nval))
    /\ nstage' = "meta"
    /\ UNCHANGED <<rest, nin>>

NextNormalizer ==
    \/ NormBody
    \/ NormChunk
    \/ NormData
    \/ NormHeadline

SpecNormalizer == InitNormalizer /\ [][NextNormalizer]_vars

\* ------------------------------------------------------------------ claims
Visible(i) == \E j \in 1..Len(store) : store[j].rec = i

\* C3: every complete record the reader has emitted is visible to queries
\* once its ingestion pass is over, as long as the engine keeps running and
\* the model's vectors fit the index.
C3_EmittedRecordsVisible ==
    (engine = "running" /\ IndexAccepts(modelDim)) => \A i \in 1..offset : Visible(i)

\* C4: every record the reader emitted and the chunker processed handed at
\* least one chunk to the Document Store, on the splitter and the fallback path.
C4_AtLeastOneChunk ==
    \A i \in 1..Len(passes) : passes[i].outcome = "ok" => passes[i].n >= 1

\* C5: when the splitter is unavailable, failed while the pipeline was built or
\* fails on a record, that record is handed on as one chunk holding its whole
\* body, and the engine keeps running.
C5_SplitterFailureFallsBack ==
    \A i \in 1..Len(passes) :
        (chunks # "split" \/ passes[i].outcome = "split_raised")
            => /\ passes[i].n = 1
               /\ passes[i].texts = <<DataOf(UnwrapBody(feed[i].body))>>
               /\ engine = "running"

\* The fallback the code does give: with the splitter unavailable or failing
\* while the pipeline is built, every record is handed on as one chunk holding
\* its whole body.
C5_BuildTimeFallback ==
    \A i \in 1..Len(passes) :
        chunks # "split"
            => /\ passes[i].n = 1
               /\ passes[i].texts = <<DataOf(UnwrapBody(feed[i].body))>>
               /\ engine = "running"

\* C6: D is the model's dimension, or 384 when the query for it failed; the
\* index is built with D; every stored vector has length D; and D, once
\* resolved, never changes.
C6_DimensionFixed ==
    /\ [](/\ emb_dim # 0 => emb_dim = IF dimDefaulted THEN DefaultDim ELSE modelDim
          /\ knn_dim # 0 => knn_dim = emb_dim
          /\ \A i \in 1..Len(store) : store[i].vlen = emb_dim)
    /\ [][emb_dim # 0 => emb_dim' = emb_dim]_vars

\* C6 witness: D came from the default and a vector is stored
C6_DefaultedAndStored == dimDefaulted /\ Len(store) > 0

\* C7: with the embedder unavailable the script has raised or is about to,
\* and nothing is set up: no reader, no chunk table, no index, no store, no
\* server, no engine; and the dependency check raises for the embedder only,
\* whatever the parser and the splitter are.
C7_EmbedderUnavailableAborts ==
    /\ ~SentenceTransformerEmbedder
          => /\ pc \in {"deps", "aborted"}
             /\ pc = "aborted" => abortCause = "embedder_unavailable"
             /\ ~news_stream /\ chunks = "unset" /\ emb_dim = 0 /\ knn_dim = 0
             /\ docs_for_store = "unset" /\ ~document_store
             /\ server = "none" /\ engine = "off"
    /\ SentenceTransformerEmbedder => abortCause # "embedder_unavailable"
    /\ (SentenceTransformerEmbedder /\ pc = "aborted") => abortCause = "server"

\* C7 witness: the script raised for the missing embedder
C7_Aborted == pc = "aborted" /\ abortCause = "embedder_unavailable"

\* C8: the engine is never started while no server is serving.
C8_NoEngineWithoutServer == engine # "off" => server = "serving"

\* C9: every stored chunk carries the headline of the record it came from.
C9_ChunksCarryHeadline ==
    \A i \in 1..Len(store) :
        store[i].meta = << <<"headline", TextOf(feed[store[i].rec].headline)>> >>

\* C10: the normalisation never raises, yields a str, yields the first
\* element of a one-element tuple or list, and the coercion str(x) of a str
\* or a number.
C10_NormalizerYieldsString ==
    /\ nstage # "raised"
    /\ nstage \in {"data", "meta"}
          => /\ IsStr(nval)
             /\ (nin.k \in {"tuple", "list"} /\ Len(nin.v) = 1) => nval = PyStr(nin.v[1])
             /\ nin.k \in {"str", "int"} => nval = PyStr(StrText(nin))

====
